---- MODULE Spec2Model ----
(***************************************************************************)
(* A model of openclaw-cli's `ocli tail`: the multi-file tail engine       *)
(* (SessionTailer), the source enumeration (get_session_files), the line   *)
(* parser (parse_line) and the backfill reader (_show_last_n/_tail_lines). *)
(*                                                                         *)
(* Spec          the tail engine running against a changing filesystem     *)
(* SpecTrunc     Spec with writers that also empty files                   *)
(* SpecLive      the engine with writers that never stop, under fairness   *)
(* SpecBackfill  the tail command: the backfill, then the first discovery  *)
(* SpecParse     parse_line applied to one decoded line                    *)
(***************************************************************************)
EXTENDS Integers, Sequences, FiniteSets, TLC

(***************************************************************************)
(* Bounds of the model.                                                    *)
(***************************************************************************)
\* how many writes the writers make, over all files, in one behaviour
MaxAppends == 2

(***************************************************************************)
(* Small helpers.                                                          *)
(***************************************************************************)
Range(s) == {s[k] : k \in 1..Len(s)}

Min2(a, b) == IF a <= b THEN a ELSE b

Max2(a, b) == IF a >= b THEN a ELSE b

\* the orders in which the elements of a finite set can be listed
Orders(S) == {s \in [1..Cardinality(S) -> S] : Range(s) = S}

(***************************************************************************)
(* The filesystem.  A file name is the sequence of its "."-separated       *)
(* segments, so that the name tests of paths.py are computed, not assumed. *)
(***************************************************************************)
Paths == {"p1", "p2", "p3", "p4"}

\* the agents given to SessionTailer, in order (self.agents)
agents == <<"a1", "a2">>

\* the sessions directory a path lies in (paths.get_session_dir)
AgentOf(p) == IF p \in {"p1", "p2"} THEN "a1" ELSE "a2"

NameOf(p) ==
    CASE p = "p1" -> <<"s1", "jsonl">>
      [] p = "p2" -> <<"s2", "deleted", "1", "jsonl">>
      [] p = "p3" -> <<"s3", "jsonl">>
      [] OTHER    -> <<"notes", "txt">>

\* f.name.endswith(".jsonl")
EndsWithJsonl(name) == Len(name) >= 2 /\ name[Len(name)] = "jsonl"

\* ".deleted." in f.name : a segment "deleted" with a dot on both sides
HasDeletedMarker(name) ==
    \E k \in 2..(Len(name) - 1) : name[k] = "deleted"

\* extract_session_id: the name up to its first "."
extract_session_id(p) == NameOf(p)[1]

VARIABLES
    include_deleted,  \* SessionTailer.include_deleted (the --deleted flag)
    exists,           \* exists[p]: p is a file of its sessions directory
    data,             \* data[p]: the file's text, a sequence of tokens
    files,            \* self._files: the registered paths, in insertion order
    handle,           \* handle[p]: "none", "open" or "closed"
    cursor,           \* cursor[p]: the read offset of the handle of p
    pc,               \* where tail() is
    idx,              \* the loop index of the loop pc is in
    found_any,        \* found_any of the current read pass
    exit,             \* how tail() was left: "none" while it runs
    parsed,           \* the lines handed to parse_line, in order:
                      \* [path, from, to, out], out what parse_line did
    regpos,           \* regpos[p]: the length of p when it was registered
    opens,            \* opens[p]: how many handles were opened on p
    closeTried,       \* the paths fh.close() was called for
    lastFailed,       \* the paths whose open() raised in the last
                      \* _scan_files loop over one agent
    appends,          \* how many writes the writers have made
    arg_line,         \* the line given to parse_line (SpecParse)
    res,              \* what parse_line did with it (SpecParse)
    n,                \* the n of _show_last_n while it runs, else 0
    no_follow,        \* the --no-follow flag of the command
    all_messages,     \* all_messages of _show_last_n: [path, msg]
    bfTried,          \* the paths _show_last_n called _tail_lines for
    bfFailed          \* those whose open() raised OSError in _tail_lines

fsVars == <<exists, data, appends>>

regVars == <<files, handle, cursor, regpos, opens, lastFailed>>

ctlVars == <<pc, idx, found_any, exit>>

parseVars == <<arg_line, res>>

cmdVars == <<n, no_follow, all_messages, bfTried, bfFailed>>

vars == <<include_deleted, fsVars, regVars, ctlVars, parsed, closeTried,
          parseVars, cmdVars>>

(***************************************************************************)
(* Text.  A file is a sequence of tokens:                                  *)
(*   "M"  a message line of a user, stamped with a UTC time ("...Z")       *)
(*   "M2" a message line stamped with a later time and a numeric offset    *)
(*   "N"  a message line stamped with a time that has no offset            *)
(*   "B"  a long line that is no user or assistant message (a tool result) *)
(*   "C"  the text of a JSON value parse_line raises on: []                *)
(*   "NL" a line terminator                                                *)
(* Json gives the JSON value of a token, SizeOf its length in bytes.  Two  *)
(* tokens side by side on a line ("MM", "MC", ...) are not valid JSON.     *)
(* While the engine runs a writer writes a whole line at once, or a line   *)
(* and its terminator in two writes.                                       *)
(***************************************************************************)
Chunks == {<<"M", "NL">>, <<"C", "NL">>, <<"M">>, <<"NL">>}

\* where fh.readline() stops when it starts after offset c: the next
\* terminator, or the end of the file when there is none
ReadlineEnd(s, c) ==
    IF \E k \in (c + 1)..Len(s) : s[k] = "NL"
    THEN CHOOSE k \in (c + 1)..Len(s) :
            s[k] = "NL" /\ \A j \in (c + 1)..(k - 1) : s[j] /= "NL"
    ELSE Len(s)

\* line.strip(): the line without its terminator
Strip(line) == SelectSeq(line, LAMBDA t : t /= "NL")

(***************************************************************************)
(* parse.parse_line on decoded JSON.  A JSON value is a record tagged by   *)
(* t: "null", "num", "str" (s, its characters), "list" (items) or "obj"    *)
(* (f, a function from its keys); a line that json.loads rejects is "bad". *)
(* A string used only as a whole ("message", "user", a timestamp part) is  *)
(* held as one character.                                                  *)
(***************************************************************************)
Bad == [t |-> "bad"]

Null == [t |-> "null"]

Num(x) == [t |-> "num", n |-> x]

Str(s) == [t |-> "str", s |-> s]

List(items) == [t |-> "list", items |-> items]

Obj(f) == [t |-> "obj", f |-> f]

\* a key that is not in the object
Absent == [t |-> "absent"]

\* the object with the given keys, without those whose value is Absent
ObjOf(all) == Obj([k \in {j \in DOMAIN all : all[j] /= Absent} |-> all[k]])

\* dict.get(key, default)
Get(o, key, default) == IF key \in DOMAIN o.f THEN o.f[key] ELSE default

\* bool(v), for the values the model holds
Truthy(v) ==
    CASE v.t = "null" -> FALSE
      [] v.t = "num"  -> v.n /= 0
      [] v.t = "str"  -> v.s /= <<>>
      [] v.t = "list" -> v.items /= <<>>
      [] OTHER        -> DOMAIN v.f /= {}

Whitespace == {" ", "\n"}

\* str.strip()
RECURSIVE StripText(_)
StripText(s) ==
    IF s = <<>> THEN s
    ELSE IF Head(s) \in Whitespace THEN StripText(Tail(s))
    ELSE IF s[Len(s)] \in Whitespace THEN StripText(SubSeq(s, 1, Len(s) - 1))
    ELSE s

\* "\n".join(parts)
RECURSIVE JoinLines(_)
JoinLines(parts) ==
    IF parts = <<>> THEN <<>>
    ELSE IF Len(parts) = 1 THEN parts[1]
    ELSE parts[1] \o <<"\n">> \o JoinLines(Tail(parts))

\* what `for block in content` iterates over: the items of a list, the
\* characters of a string, the keys of an object (the model's objects have
\* at most one key where the order would matter)
RECURSIVE SetToSeq(_)
SetToSeq(S) ==
    IF S = {} THEN <<>>
    ELSE LET x == CHOOSE x \in S : TRUE IN <<x>> \o SetToSeq(S \ {x})

Iterate(content) ==
    CASE content.t = "list" -> content.items
      [] content.t = "str"  -> [k \in 1..Len(content.s) |-> Str(<<content.s[k]>>)]
      [] OTHER              -> [k \in 1..Cardinality(DOMAIN content.f) |->
                                  Str(<<SetToSeq(DOMAIN content.f)[k]>>)]

\* lines 47-51: what one block appends to text_parts (Absent: nothing)
TextPart(block) ==
    IF block.t = "obj" /\ Get(block, "type", Null) = Str(<<"text">>)
    THEN Get(block, "text", Str(<<>>))
    ELSE IF block.t = "str" THEN block
    ELSE Absent

\* lines 46-51: text_parts
RECURSIVE TextParts(_)
TextParts(blocks) ==
    IF blocks = <<>> THEN <<>>
    ELSE LET part == TextPart(Head(blocks))
         IN  (IF part = Absent THEN <<>> ELSE <<part>>)
                \o TextParts(Tail(blocks))

\* line 60: datetime.fromisoformat(ts_str.replace("Z", "+00:00")) of a
\* string held as <<date>> or <<date, suffix>>; "invalid" when it raises
\* ValueError
Dates == {"2026-01-01T00:00:00", "2026-01-02T00:00:00"}

Offsets == {"+00:00", "+02:00"}

ReplaceZ(s) == [k \in 1..Len(s) |-> IF s[k] = "Z" THEN "+00:00" ELSE s[k]]

FromIsoFormat(s) ==
    IF Len(s) = 1 /\ s[1] \in Dates
    THEN [at |-> s[1], tz |-> "naive"]
    ELSE IF Len(s) = 2 /\ s[1] \in Dates /\ s[2] \in Offsets
    THEN [at |-> s[1], tz |-> s[2]]
    ELSE [at |-> "invalid", tz |-> "invalid"]

\* lines 58-62: the record's timestamp; datetime.now(timezone.utc) when the
\* field is no string (AttributeError) or no ISO time (ValueError)
Timestamp(obj) ==
    LET ts_str == Get(obj, "timestamp", Str(<<>>))
        now == [at |-> "now", tz |-> "+00:00"]
    IN  IF ts_str.t /= "str" THEN now
        ELSE IF FromIsoFormat(ReplaceZ(ts_str.s)).at = "invalid" THEN now
        ELSE FromIsoFormat(ReplaceZ(ts_str.s))

None == [kind |-> "none"]

Raise(why) == [kind |-> "raise", why |-> why]

\* lines 64-80, once the text is known
ParseCost(obj, msg, role, text) ==
    LET usage == Get(msg, "usage", Obj(<<>>))
    IN  IF usage.t /= "obj" THEN Raise("AttributeError")
        ELSE LET cost_obj == Get(usage, "cost", Obj(<<>>))
             IN  IF Truthy(cost_obj) /\ cost_obj.t /= "obj"
                 THEN Raise("AttributeError")
                 ELSE [kind |-> "record", role |-> role, text |-> text,
                       timestamp |-> Timestamp(obj),
                       cost |-> IF Truthy(cost_obj)
                                THEN Get(cost_obj, "total", Null) ELSE Null]

\* lines 44-55
ParseContent(obj, msg, role) ==
    LET content == Get(msg, "content", List(<<>>))
    IN  IF content.t \in {"null", "num"} THEN Raise("TypeError")
        ELSE LET text_parts == TextParts(Iterate(content))
             IN  IF \E k \in 1..Len(text_parts) : text_parts[k].t /= "str"
                 THEN Raise("TypeError")
                 ELSE LET text == StripText(JoinLines(
                                [k \in 1..Len(text_parts) |-> text_parts[k].s]))
                      IN  IF text = <<>> THEN None
                          ELSE ParseCost(obj, msg, role, text)

\* lines 27-42
parse_line(ln) ==
    IF ln = Bad THEN None
    ELSE IF ln.t /= "obj" THEN Raise("AttributeError")
    ELSE IF Get(ln, "type", Null) /= Str(<<"message">>) THEN None
    ELSE LET msg == Get(ln, "message", Obj(<<>>))
         IN  IF msg.t /= "obj" THEN Raise("AttributeError")
             ELSE LET role == Get(msg, "role", Str(<<>>))
                  IN  IF role \notin {Str(<<"user">>), Str(<<"assistant">>)}
                      THEN None
                      ELSE ParseContent(ln, msg, role)

(***************************************************************************)
(* The lines of the files.                                                 *)
(***************************************************************************)
TextBlock(v) == ObjOf([type |-> Str(<<"text">>), text |-> v])

MessageLine(role, ts) ==
    ObjOf([type |-> Str(<<"message">>),
           message |-> ObjOf([role |-> Str(<<role>>),
                              content |-> List(<<TextBlock(Str(<<"a">>))>>)]),
           timestamp |-> Str(ts)])

Json(tok) ==
    CASE tok = "M"  -> MessageLine("user", <<"2026-01-01T00:00:00", "Z">>)
      [] tok = "M2" -> MessageLine("assistant", <<"2026-01-02T00:00:00", "+02:00">>)
      [] tok = "N"  -> MessageLine("assistant", <<"2026-01-02T00:00:00">>)
      [] tok = "B"  -> MessageLine("toolResult", <<"2026-01-02T00:00:00", "Z">>)
      [] tok = "C"  -> List(<<>>)

\* the length of a token in bytes
SizeOf(tok) ==
    CASE tok = "NL" -> 1
      [] tok = "C"  -> 2
      [] tok = "B"  -> 6144
      [] OTHER      -> 99

\* the JSON value json.loads makes of a stripped line: a line of one whole
\* token has that token's value, any other text is rejected; "frag" is the
\* tail of a token cut by the start of a read
Decode(line) ==
    IF Len(line) = 1 /\ line[1] /= "frag" THEN Json(line[1]) ELSE Bad

\* the tokens that are the text of a JSON value
Tokens == {"M", "M2", "N", "B", "C"}

\* what parse_line does with the line of each token, and with text that is
\* no JSON: "record", "none" or "raise"
TokenKind == [tok \in Tokens |-> parse_line(Json(tok)).kind]

BadKind == parse_line(Bad).kind

\* what parse_line does with a stripped line
ParseTokens(line) ==
    IF Decode(line) = Bad THEN BadKind ELSE TokenKind[line[1]]

(***************************************************************************)
(* paths.get_session_files                                                 *)
(***************************************************************************)
\* get_session_files without line 37: no file is left out for its marker
get_session_filesUnfiltered(agent, incl) ==
    {p \in Paths : /\ AgentOf(p) = agent
                   /\ exists[p]
                   /\ EndsWithJsonl(NameOf(p))}

get_session_files(agent, incl) ==
    {p \in Paths : /\ AgentOf(p) = agent
                   /\ exists[p]
                   /\ EndsWithJsonl(NameOf(p))
                   /\ (incl \/ ~HasDeletedMarker(NameOf(p)))}

(***************************************************************************)
(* The state after SessionTailer.__init__, with tail() about to start.     *)
(* The directories hold every file but p3, which a later session creates;  *)
(* the file of the deleted session holds the message it was left with.     *)
(***************************************************************************)
Pending == [kind |-> "pending"]

\* SessionTailer.__init__, with tail() at `start`
InitEngine(start) ==
    /\ exists = [p \in Paths |-> p /= "p3"]
    /\ data = [p \in Paths |->
                IF HasDeletedMarker(NameOf(p)) THEN <<"M", "NL">> ELSE <<>>]
    /\ files = <<>>
    /\ handle = [p \in Paths |-> "none"]
    /\ cursor = [p \in Paths |-> 0]
    /\ pc = start
    /\ idx = 1
    /\ found_any = FALSE
    /\ exit = "none"
    /\ parsed = <<>>
    /\ regpos = [p \in Paths |-> 0]
    /\ opens = [p \in Paths |-> 0]
    /\ lastFailed = {}
    /\ closeTried = {}
    /\ appends = 0

\* no `ocli tail` command has run _show_last_n
InitCommand ==
    /\ n = 0
    /\ no_follow = FALSE
    /\ all_messages = <<>>
    /\ bfTried = {}
    /\ bfFailed = {}

InitTail ==
    /\ include_deleted \in BOOLEAN
    /\ InitEngine("scan0")
    /\ InitCommand
    /\ arg_line = Bad
    /\ res = Pending

Init == InitTail

\* the registered paths
Registry == Range(files)

\* the records printed, had the engine grouped its output by source
emittedGrouped ==
    LET e == SelectSeq(parsed, LAMBDA r : r.out = "record")
    IN  SelectSeq(e, LAMBDA r : r.path = "p1")
            \o SelectSeq(e, LAMBDA r : r.path /= "p1")

\* the records printed (console.print(format_message(msg))), in order
emitted == SelectSeq(parsed, LAMBDA r : r.out = "record")

\* tail() has not been left
Running == pc /= "Stopped"

(***************************************************************************)
(* The writers.  The model follows the filesystem until tail() is left or  *)
(* has begun to leave.                                                     *)
(***************************************************************************)
\* a session file appears in its directory
Create(p) ==
    /\ exit = "none"
    /\ ~exists[p]
    /\ exists' = [exists EXCEPT ![p] = TRUE]
    /\ UNCHANGED <<data, appends>>
    /\ UNCHANGED <<parseVars, cmdVars, include_deleted, regVars, ctlVars, parsed, closeTried>>

\* the files of live sessions: a session whose file is marked deleted is
\* written no more
LivePaths == {p \in Paths : ~HasDeletedMarker(NameOf(p))}

\* a writer appends to a session file
Write(p, chunk) ==
    /\ exit = "none"
    /\ exists[p]
    /\ EndsWithJsonl(NameOf(p))
    /\ appends < MaxAppends
    /\ data' = [data EXCEPT ![p] = @ \o chunk]
    /\ appends' = appends + 1
    /\ UNCHANGED exists
    /\ UNCHANGED <<parseVars, cmdVars, include_deleted, regVars, ctlVars, parsed, closeTried>>

(***************************************************************************)
(* How tail() is left.                                                     *)
(***************************************************************************)
\* lines 114-121 are outside the try statement: what is raised there
\* propagates, and the finally clause is not run
OutsideTry == pc \in {"scan0", "startup"}

\* lines 124-151 are inside it
InsideTry == pc \in {"loop", "rescan", "read", "sleep"}

\* lines 155-160, the finally clause from the k-th entry of self._files on:
\* the paths fh.close() is called for when it raises for those of `fails`;
\* the exception is swallowed and the loop goes on
RECURSIVE CloseFrom(_, _)
CloseFrom(k, fails) ==
    IF k > Len(files) THEN {}
    ELSE {files[k]} \cup CloseFrom(k + 1, fails)

\* tail() is left with `why` raised where pc is, through the finally clause
\* when pc is inside the try statement.  A close that raises has released
\* its handle all the same.
Leave(why) ==
    /\ pc' = "Stopped"
    /\ idx' = 1
    /\ found_any' = FALSE
    /\ exit' = why
    /\ IF OutsideTry
       THEN UNCHANGED <<handle, closeTried>>
       ELSE \E fails \in SUBSET Range(files) :
              LET tried == CloseFrom(1, fails)
              IN  /\ closeTried' = tried
                  /\ handle' = [p \in Paths |->
                                  IF p \in tried THEN "closed" ELSE handle[p]]

(***************************************************************************)
(* SessionTailer._scan_files, one agent of self.agents at a time.          *)
(***************************************************************************)
\* the offset a new handle starts at, ignoring line 105: the start of the file
SeekStart(p) == 0

\* line 105, fh.seek(0, os.SEEK_END): the offset a new handle starts at
SeekEnd(p) == Len(data[p])

\* every candidate whose open() succeeds, known or not
RegisteredAgain(order, failed) ==
    SelectSeq(order, LAMBDA p : p \notin failed)

\* every candidate not in self._files, whether its open() succeeds or not
RegisteredDespiteFailure(order, failed) ==
    SelectSeq(order, LAMBDA p : p \notin Range(files))

\* the candidates of one agent that are registered: those not in self._files
\* (line 101) whose open() succeeds, in the order get_session_files returned
\* them
Registered(order, failed) ==
    SelectSeq(order, LAMBDA p : p \notin Range(files) /\ p \notin failed)

\* lines 100-109 for one agent: `order` is what get_session_files returned
\* (sorted by mtime, which the writers decide), `failed` the paths whose
\* open() raises OSError
ScanAgentOk(order, failed) ==
    LET new == Registered(order, failed)
        last == idx = Len(agents)
    IN  /\ files' = files \o new
        /\ handle' = [p \in Paths |->
                        IF p \in Range(new) THEN "open" ELSE handle[p]]
        /\ cursor' = [p \in Paths |->
                        IF p \in Range(new) THEN SeekEnd(p) ELSE cursor[p]]
        /\ regpos' = [p \in Paths |->
                        IF p \in Range(new) THEN Len(data[p]) ELSE regpos[p]]
        /\ opens' = [p \in Paths |->
                        IF p \in Range(new) THEN opens[p] + 1 ELSE opens[p]]
        /\ lastFailed' = (Range(order) \ Registry) \cap failed
        /\ idx' = IF last THEN 1 ELSE idx + 1
        /\ pc' = IF ~last THEN pc
                 ELSE IF pc = "scan0" THEN "startup" ELSE "read"
        /\ UNCHANGED <<found_any, exit, closeTried>>

\* get_session_files raises OSError (iterdir on an unreadable directory, stat
\* of a file that vanished after it was listed); _scan_files does not catch it
ScanAgentRaise ==
    /\ Leave("OSError")
    /\ UNCHANGED <<files, cursor, regpos, opens, lastFailed>>

ScanAgent ==
    /\ pc \in {"scan0", "rescan"}
    /\ \/ \E order \in Orders(get_session_files(agents[idx], include_deleted)) :
            \E failed \in SUBSET Range(order) :
                ScanAgentOk(order, failed)
       \/ ScanAgentRaise
    /\ UNCHANGED <<parseVars, cmdVars, include_deleted, fsVars, parsed>>

(***************************************************************************)
(* SessionTailer.tail                                                      *)
(***************************************************************************)
\* lines 116-121: the start-up messages
Startup ==
    /\ pc = "startup"
    /\ pc' = "loop"
    /\ UNCHANGED <<idx, found_any, exit>>
    /\ UNCHANGED <<parseVars, cmdVars, include_deleted, fsVars, regVars, parsed, closeTried>>

\* lines 126-135: the top of the loop; the rediscovery timer has expired or
\* it has not
LoopTop ==
    /\ pc = "loop"
    /\ pc' \in {"rescan", "read"}
    /\ UNCHANGED <<idx, found_any, exit>>
    /\ UNCHANGED <<parseVars, cmdVars, include_deleted, fsVars, regVars, parsed, closeTried>>

\* the offset of a handle after readline, had it stayed where it was
AfterReadlineRewound(c, e) == c

\* line 138: the offset of a handle that was at c, after fh.readline() has
\* returned the text up to e
AfterReadline(c, e) == e

\* lines 137-147: one fh.readline() of the source the pass is at, and what
\* the loop body does with the line
ReadLine ==
    /\ pc = "read"
    /\ idx <= Len(files)
    /\ LET p == files[idx]
           s == data[p]
           c == cursor[p]
           e == ReadlineEnd(s, c)
           line == Strip(SubSeq(s, c + 1, e))
           out == ParseTokens(line)
           rec == [path |-> p, from |-> c + 1, to |-> e, out |-> out]
       IN  IF c >= Len(s)
           THEN \* readline returned "": break, the next source
                /\ idx' = idx + 1
                /\ UNCHANGED <<cursor, parsed, found_any, pc, exit, handle,
                               closeTried>>
           ELSE /\ cursor' = [cursor EXCEPT ![p] = AfterReadline(c, e)]
                /\ IF line = <<>>
                   THEN \* a blank line: continue
                        UNCHANGED <<parsed, found_any, pc, idx, exit, handle,
                                    closeTried>>
                   ELSE /\ parsed' = Append(parsed, rec)
                        /\ IF out = "raise"
                           THEN Leave("AttributeError")
                           ELSE /\ found_any' = (found_any \/ out = "record")
                                /\ UNCHANGED <<pc, idx, exit, handle,
                                               closeTried>>
    /\ UNCHANGED <<files, regpos, opens, lastFailed>>
    /\ UNCHANGED <<parseVars, cmdVars, include_deleted, fsVars>>

\* fh.readline() raises OSError (the read fails); tail() does not catch it
ReadRaise ==
    /\ pc = "read"
    /\ idx <= Len(files)
    /\ Leave("OSError")
    /\ UNCHANGED <<files, cursor, regpos, opens, lastFailed>>
    /\ UNCHANGED <<parseVars, cmdVars, include_deleted, fsVars, parsed>>

\* the end of a pass, had the engine slept after every pass
PassEndAlwaysSleep ==
    /\ pc = "read"
    /\ idx > Len(files)
    /\ pc' = "sleep"
    /\ idx' = 1
    /\ found_any' = FALSE
    /\ UNCHANGED exit
    /\ UNCHANGED <<parseVars, cmdVars, include_deleted, fsVars, regVars, parsed, closeTried>>

\* lines 149-151: the end of a pass
PassEnd ==
    /\ pc = "read"
    /\ idx > Len(files)
    /\ pc' = IF found_any THEN "loop" ELSE "sleep"
    /\ idx' = 1
    /\ found_any' = FALSE
    /\ UNCHANGED exit
    /\ UNCHANGED <<parseVars, cmdVars, include_deleted, fsVars, regVars, parsed, closeTried>>

\* the sleep, had the engine given up after an idle pass
SleepStops ==
    /\ pc = "sleep"
    /\ pc' = "Stopped"
    /\ UNCHANGED <<idx, found_any, exit>>
    /\ UNCHANGED <<parseVars, cmdVars, include_deleted, fsVars, regVars, parsed, closeTried>>

\* time.sleep(self.poll_interval) returns
Sleep ==
    /\ pc = "sleep"
    /\ pc' = "loop"
    /\ UNCHANGED <<idx, found_any, exit>>
    /\ UNCHANGED <<parseVars, cmdVars, include_deleted, fsVars, regVars, parsed, closeTried>>

\* Ctrl+C: KeyboardInterrupt is raised wherever tail() is
Interrupt ==
    /\ OutsideTry \/ InsideTry
    /\ Leave("KeyboardInterrupt")
    /\ UNCHANGED <<files, cursor, regpos, opens, lastFailed>>
    /\ UNCHANGED <<parseVars, cmdVars, include_deleted, fsVars, parsed>>

Next ==
    \/ \E p \in Paths : Create(p)
    \/ \E p \in LivePaths : \E chunk \in Chunks : Write(p, chunk)
    \/ ScanAgent
    \/ Startup
    \/ LoopTop
    \/ ReadLine
    \/ ReadRaise
    \/ PassEnd
    \/ Sleep
    \/ Interrupt

Spec == Init /\ [][Next]_vars

(***************************************************************************)
(* SpecTrunc: the engine against writers that also truncate files.         *)
(***************************************************************************)
\* a writer empties a session file (as log rotation does); the handle the
\* engine holds keeps its offset
Truncate(p) ==
    /\ exit = "none"
    /\ exists[p]
    /\ EndsWithJsonl(NameOf(p))
    /\ appends < MaxAppends
    /\ data[p] /= <<>>
    /\ data' = [data EXCEPT ![p] = <<>>]
    /\ appends' = appends + 1
    /\ UNCHANGED exists
    /\ UNCHANGED <<parseVars, cmdVars, include_deleted, regVars, ctlVars, parsed, closeTried>>

NextTrunc ==
    \/ Next
    \/ \E p \in LivePaths : Truncate(p)

SpecTrunc == Init /\ [][NextTrunc]_vars

(***************************************************************************)
(* SpecLive: the engine with writers that never run out of lines.  The     *)
(* engine's steps depend on a file only through the text after the         *)
(* handle's offset, so the state keeps that text alone: a read drops the   *)
(* line it consumed from data[p] and leaves cursor[p] at 0, and parsed     *)
(* holds the line parsed last.  The engine takes the step it is at         *)
(* whenever it can (weak fairness on each of its steps, of which pc        *)
(* enables one at a time); what the writers and Ctrl+C do is up to them.   *)
(***************************************************************************)
\* how many tokens of a file can lie unread
MaxUnread == 2

\* the lines the writers append
LiveChunks == {<<"M", "NL">>, <<"M2", "NL">>}

\* a writer appends a line to a registered session file
WriteLive(p, chunk) ==
    /\ exit = "none"
    /\ p \in Registry
    /\ Len(data[p]) - cursor[p] + Len(chunk) <= MaxUnread
    /\ data' = [data EXCEPT ![p] = @ \o chunk]
    /\ UNCHANGED <<exists, appends>>
    /\ UNCHANGED <<parseVars, cmdVars, include_deleted, regVars, ctlVars, parsed, closeTried>>

\* lines 137-147, as ReadLine, on the text after the offset
ReadLineLive ==
    /\ pc = "read"
    /\ idx <= Len(files)
    /\ LET p == files[idx]
           s == data[p]
           c == cursor[p]
           e == ReadlineEnd(s, c)
           line == Strip(SubSeq(s, c + 1, e))
           out == ParseTokens(line)
           rec == [path |-> p, from |-> c + 1, to |-> e, out |-> out]
       IN  IF c >= Len(s)
           THEN /\ idx' = idx + 1
                /\ UNCHANGED <<data, cursor, parsed, found_any, pc, exit, handle,
                               closeTried>>
           ELSE /\ data' = [data EXCEPT ![p] = SubSeq(s, e + 1, Len(s))]
                /\ cursor' = [cursor EXCEPT ![p] = 0]
                /\ IF line = <<>>
                   THEN UNCHANGED <<parsed, found_any, pc, idx, exit, handle,
                                    closeTried>>
                   ELSE /\ parsed' = <<rec>>
                        /\ IF out = "raise"
                           THEN Leave("AttributeError")
                           ELSE /\ found_any' = (found_any \/ out = "record")
                                /\ UNCHANGED <<pc, idx, exit, handle,
                                               closeTried>>
    /\ UNCHANGED <<files, regpos, opens, lastFailed>>
    /\ UNCHANGED <<parseVars, cmdVars, include_deleted, exists, appends>>

\* the steps the engine takes by itself
EngineNext ==
    \/ ScanAgent
    \/ Startup
    \/ LoopTop
    \/ ReadLineLive
    \/ PassEnd
    \/ Sleep

NextLive ==
    \/ \E p \in Paths : Create(p)
    \/ \E p \in LivePaths : \E chunk \in LiveChunks : WriteLive(p, chunk)
    \/ ReadRaise
    \/ Interrupt
    \/ EngineNext

EngineFair ==
    /\ WF_vars(ScanAgent)
    /\ WF_vars(Startup)
    /\ WF_vars(LoopTop)
    /\ WF_vars(ReadLineLive)
    /\ WF_vars(PassEnd)
    /\ WF_vars(Sleep)

SpecLive == Init /\ [][NextLive]_vars /\ EngineFair

(***************************************************************************)
(* SpecBackfill: `ocli tail -n N [--no-follow] [--deleted]` run on session *)
(* files the writers have prepared: _show_last_n over every agent, then,   *)
(* unless --no-follow is given, the first discovery pass of the engine.    *)
(***************************************************************************)
\* the file's length in bytes
RECURSIVE ByteSize(_)
ByteSize(s) == IF s = <<>> THEN 0 ELSE SizeOf(Head(s)) + ByteSize(Tail(s))

\* f.read() after f.seek(start): the tokens from that byte on; a token the
\* start falls inside is read in part
ReadFrom(s, start) ==
    LET kept == {k \in 1..Len(s) : ByteSize(SubSeq(s, 1, k)) > start}
        first == Len(s) - Cardinality(kept) + 1
    IN  [j \in 1..Cardinality(kept) |->
            IF ByteSize(SubSeq(s, 1, first + j - 2)) >= start
            THEN s[first + j - 1] ELSE "frag"]

\* data.strip(): the text without the terminators at its ends
RECURSIVE StripEnds(_)
StripEnds(s) ==
    IF s = <<>> THEN s
    ELSE IF Head(s) = "NL" THEN StripEnds(Tail(s))
    ELSE IF s[Len(s)] = "NL" THEN StripEnds(SubSeq(s, 1, Len(s) - 1))
    ELSE s

\* str.split("\n"): the lines between the terminators; one empty line for
\* the empty string
RECURSIVE SplitLines(_)
SplitLines(s) ==
    IF \A k \in 1..Len(s) : s[k] /= "NL" THEN <<s>>
    ELSE LET k == ReadlineEnd(s, 0)
         IN  <<SubSeq(s, 1, k - 1)>> \o SplitLines(SubSeq(s, k + 1, Len(s)))

\* seq[-k:] for k >= 1
LastOf(seq, k) == SubSeq(seq, Max2(1, Len(seq) - k + 1), Len(seq))

\* line 243: the lines read for one of the n messages asked for
OverRead == 3

\* line 267: the bytes a line is taken to have
BytesPerLine == 2048

\* the byte the read starts at, had _tail_lines read the file from its start
ReadStartOfFile(s, max_lines) == 0

\* _tail_lines, lines 265-268: the byte the read starts at
ReadStart(s, max_lines) ==
    LET size == ByteSize(s)
        chunk == Min2(size, max_lines * BytesPerLine)
    IN  Max2(0, size - chunk)

\* _tail_lines when open() succeeds
_tail_lines(s, max_lines) ==
    LastOf(SplitLines(StripEnds(ReadFrom(s, ReadStart(s, max_lines)))),
           max_lines)

\* lines 240-247 for one path: the messages its lines add to all_messages,
\* or <<>> when open() raises OSError (line 272); Raises when parse_line
\* raises on one of the lines
LinesOf(p, failed) ==
    IF p \in failed THEN <<>> ELSE _tail_lines(data[p], n * OverRead)

Raises(p, failed) ==
    \E k \in 1..Len(LinesOf(p, failed)) :
        ParseTokens(LinesOf(p, failed)[k]) = "raise"

MessagesOf(p, failed) ==
    LET ls == SelectSeq(LinesOf(p, failed),
                        LAMBDA line : ParseTokens(line) = "record")
    IN  [k \in 1..Len(ls) |-> [path |-> p, msg |-> parse_line(Decode(ls[k]))]]

RECURSIVE MessagesOfAll(_, _)
MessagesOfAll(order, failed) ==
    IF order = <<>> THEN <<>>
    ELSE MessagesOf(Head(order), failed) \o MessagesOfAll(Tail(order), failed)

\* the hours from the start of the year to the time a timestamp shows, and
\* the hours its offset is ahead of UTC
HoursOf(at) ==
    CASE at = "2026-01-01T00:00:00" -> 0
      [] at = "2026-01-02T00:00:00" -> 24

OffsetHours(tz) ==
    CASE tz = "+00:00" -> 0
      [] tz = "+02:00" -> 2
      [] tz = "naive"  -> 0

\* the order of datetime: by instant for two times with an offset, by the
\* time shown for two without
Instant(ts) == HoursOf(ts.at) - OffsetHours(ts.tz)

\* datetime's < raises TypeError for a time with an offset and one without
Comparable(msgs) ==
    \A j, k \in 1..Len(msgs) :
        (msgs[j].msg.timestamp.tz = "naive")
            = (msgs[k].msg.timestamp.tz = "naive")

\* list.sort(key=lambda m: m.timestamp): ascending, equal keys in the order
\* they had
RECURSIVE SortByTimestamp(_)
SortByTimestamp(msgs) ==
    IF msgs = <<>> THEN <<>>
    ELSE LET x == msgs[Len(msgs)]
             rest == SortByTimestamp(SubSeq(msgs, 1, Len(msgs) - 1))
             before == SelectSeq(rest, LAMBDA m :
                          Instant(m.msg.timestamp) <= Instant(x.msg.timestamp))
             after == SelectSeq(rest, LAMBDA m :
                          Instant(m.msg.timestamp) > Instant(x.msg.timestamp))
         IN  before \o <<x>> \o after

\* the writers' lines before the command is run
SetupChunks == {<<tok, "NL">> : tok \in {"M", "M2", "N", "B", "C"}}

InitBackfill ==
    /\ include_deleted \in BOOLEAN
    /\ InitEngine("setup")
    /\ InitCommand
    /\ arg_line = Bad
    /\ res = Pending

\* the values of -n the command is run with (0 when it is not given)
LastValues == {0, 1, 2}

\* line 226: the n of --no-follow without -n
DefaultLast == 20

\* the command is left by an exception
Crash(why) ==
    /\ pc' = "exited"
    /\ exit' = why
    /\ UNCHANGED <<idx, found_any>>

\* tail(), lines 214-231, up to the call it makes first
TailCommand(last_n, nf) ==
    /\ pc = "setup"
    /\ no_follow' = nf
    /\ n' = IF last_n > 0 THEN last_n ELSE IF nf THEN DefaultLast ELSE 0
    /\ pc' = IF last_n > 0 \/ nf THEN "backfill" ELSE "scan0"
    /\ UNCHANGED <<all_messages, bfTried, bfFailed, idx, found_any, exit>>
    /\ UNCHANGED <<parseVars, include_deleted, fsVars, regVars, parsed,
                   closeTried>>

\* _show_last_n, lines 238-249 for one agent: `order` is what
\* get_session_files returned, `failed` the paths whose open() raises
\* OSError; the loop stops at the first path parse_line raises for
BackfillAgentOk(order, failed) ==
    LET bad == {k \in 1..Len(order) : Raises(order[k], failed)}
        stop == IF bad = {} THEN Len(order)
                ELSE CHOOSE k \in bad : \A j \in bad : k <= j
        tried == {order[k] : k \in 1..stop}
        last == idx = Len(agents)
    IN  /\ bfTried' = bfTried \cup tried
        /\ bfFailed' = bfFailed \cup (tried \cap failed)
        /\ IF bad /= {}
           THEN /\ Crash("AttributeError")
                /\ all_messages' =
                      all_messages \o MessagesOfAll(SubSeq(order, 1, stop - 1),
                                                    failed)
           ELSE /\ all_messages' = all_messages \o MessagesOfAll(order, failed)
                /\ idx' = IF last THEN 1 ELSE idx + 1
                /\ pc' = IF last THEN "sort" ELSE pc
                /\ UNCHANGED <<found_any, exit>>

\* get_session_files raises OSError; _show_last_n does not catch it
BackfillAgentRaise ==
    /\ Crash("OSError")
    /\ UNCHANGED <<all_messages, bfTried, bfFailed>>

BackfillAgent ==
    /\ pc = "backfill"
    /\ \/ \E order \in Orders(get_session_files(agents[idx], include_deleted)) :
            \E failed \in SUBSET Range(order) :
                BackfillAgentOk(order, failed)
       \/ BackfillAgentRaise
    /\ UNCHANGED <<n, no_follow>>
    /\ UNCHANGED <<parseVars, include_deleted, fsVars, regVars, parsed,
                   closeTried>>

\* line 252
SortMessages ==
    /\ pc = "sort"
    /\ IF Comparable(all_messages)
       THEN /\ all_messages' = SortByTimestamp(all_messages)
            /\ pc' = "print"
            /\ UNCHANGED <<idx, found_any, exit>>
       ELSE /\ Crash("TypeError")
            /\ UNCHANGED all_messages
    /\ UNCHANGED <<n, no_follow, bfTried, bfFailed>>
    /\ UNCHANGED <<parseVars, include_deleted, fsVars, regVars, parsed,
                   closeTried>>

\* lines 253-254: the records _show_last_n prints, once the list is sorted
Shown == LastOf(all_messages, n)

\* lines 253-257, the return of _show_last_n, and lines 223-230 of tail():
\* the command returns, or the engine is constructed
PrintLast ==
    /\ pc = "print"
    /\ pc' = IF no_follow THEN "exited" ELSE "scan0"
    /\ n' = 0
    /\ all_messages' = <<>>
    /\ UNCHANGED <<no_follow, bfTried, bfFailed, idx, found_any, exit>>
    /\ UNCHANGED <<parseVars, include_deleted, fsVars, regVars, parsed,
                   closeTried>>

NextBackfill ==
    \/ \E p \in Paths : pc = "setup" /\ Create(p)
    \/ \E p \in LivePaths : \E chunk \in SetupChunks :
            pc = "setup" /\ Write(p, chunk)
    \/ \E last_n \in LastValues : \E nf \in BOOLEAN : TailCommand(last_n, nf)
    \/ BackfillAgent
    \/ SortMessages
    \/ PrintLast
    \/ pc = "scan0" /\ ScanAgent

SpecBackfill == InitBackfill /\ [][NextBackfill]_vars

(***************************************************************************)
(* SpecParse: parse_line applied to one line, drawn from Lines.            *)
(***************************************************************************)
ImageBlock == ObjOf([type |-> Str(<<"image">>), text |-> Absent])

Roles ==
    {Absent, Null, Str(<<"user">>), Str(<<"assistant">>), Str(<<"toolResult">>)}

Contents ==
    {Absent, Null, Num(5),
     Str(<<>>), Str(<<"h", "i">>), Str(<<" ", "a", " ">>),
     List(<<>>),
     List(<<TextBlock(Str(<<"a">>))>>),
     List(<<TextBlock(Str(<<" ", "a">>)), TextBlock(Str(<<"b", "\n">>))>>),
     List(<<TextBlock(Str(<<"a">>)), ImageBlock, Str(<<"b">>)>>),
     List(<<ImageBlock, TextBlock(Str(<<" ">>))>>),
     List(<<TextBlock(Absent)>>),
     List(<<TextBlock(Null)>>),
     List(<<Num(1)>>),
     ObjOf([type |-> Str(<<"text">>)])}

Usages ==
    {Absent, Null, Obj(<<>>),
     ObjOf([cost |-> Null]), ObjOf([cost |-> Num(5)]),
     ObjOf([cost |-> ObjOf([total |-> Num(1)])])}

Timestamps ==
    {Absent, Null, Num(5),
     Str(<<"2026-01-01T00:00:00", "Z">>),
     Str(<<"2026-01-01T00:00:00">>),
     Str(<<"2026-01-02T00:00:00", "+02:00">>),
     Str(<<"yesterday">>)}

Messages ==
    {Absent, Null, Str(<<"x">>)}
        \cup {ObjOf([role |-> r, content |-> c, usage |-> u]) :
                r \in Roles, c \in Contents, u \in Usages}

Types == {Absent, Str(<<"message">>), Str(<<"session">>)}

Lines ==
    {Bad, Null, Num(1), Str(<<"x">>), List(<<>>)}
        \cup {ObjOf([type |-> t, message |-> m, timestamp |-> ts]) :
                t \in Types, m \in Messages, ts \in Timestamps}

InitParse ==
    /\ include_deleted = FALSE
    /\ InitEngine("parse")
    /\ InitCommand
    /\ arg_line \in Lines
    /\ res = Pending

\* the caller hands the line to parse_line
ParseLine ==
    /\ pc = "parse"
    /\ res = Pending
    /\ res' = parse_line(arg_line)
    /\ UNCHANGED <<arg_line, cmdVars, include_deleted, fsVars, regVars, ctlVars,
                   parsed, closeTried>>

NextParse == ParseLine

SpecParse == InitParse /\ [][NextParse]_vars

(***************************************************************************)
(* The line parser's properties.                                           *)
(***************************************************************************)
\* the line's type discriminant and role, as the wire format defines them
TypeOf(ln) == IF ln.t = "obj" THEN Get(ln, "type", Null) ELSE Null

MessageOf(ln) == IF ln.t = "obj" THEN Get(ln, "message", Null) ELSE Null

RoleOf(ln) ==
    IF MessageOf(ln).t = "obj" THEN Get(MessageOf(ln), "role", Null) ELSE Null

ContentOf(ln) ==
    IF MessageOf(ln).t = "obj" THEN Get(MessageOf(ln), "content", Null)
    ELSE Null

IsMessageLine(ln) ==
    /\ TypeOf(ln) = Str(<<"message">>)
    /\ RoleOf(ln) \in {Str(<<"user">>), Str(<<"assistant">>)}

\* C7: parse_line never raises, and it returns None for every line that is
\* not decodable, whose type is not "message" (a value that is no object
\* has none) or whose role is neither user nor assistant.
C7_MalformedLineIsAbsent ==
    res /= Pending =>
        /\ res.kind /= "raise"
        /\ ~IsMessageLine(arg_line) => res = None

\* C20: every record parse_line returns carries a timestamp with an offset
\* from UTC, whatever the form of the line's timestamp field.
C20_TimestampIsAbsolute ==
    (res /= Pending /\ res.kind = "record") => res.timestamp.tz \in Offsets

\* the text fields of the blocks of type text
RECURSIVE TextFields(_)
TextFields(blocks) ==
    IF blocks = <<>> THEN <<>>
    ELSE (IF Get(Head(blocks), "type", Null) = Str(<<"text">>)
          THEN <<Get(Head(blocks), "text", Str(<<>>)).s>> ELSE <<>>)
            \o TextFields(Tail(blocks))

\* the content is a sequence of blocks whose text fields are strings, or a
\* plain string, and the usage field is an object or missing
WellFormedMessage(ln) ==
    /\ IsMessageLine(ln)
    /\ LET c == ContentOf(ln)
       IN  \/ c.t = "str"
           \/ /\ c.t = "list"
              /\ \A k \in 1..Len(c.items) :
                    /\ c.items[k].t = "obj"
                    /\ Get(c.items[k], "text", Str(<<>>)).t = "str"
    /\ Get(MessageOf(ln), "usage", Obj(<<>>)).t = "obj"
    /\ LET cost == Get(Get(MessageOf(ln), "usage", Obj(<<>>)), "cost", Null)
       IN  cost.t \in {"null", "obj"}

\* the text the record must carry
ExpectedText(ln) ==
    LET c == ContentOf(ln)
    IN  StripText(IF c.t = "str" THEN c.s ELSE JoinLines(TextFields(c.items)))

\* C8: for a message line with role user or assistant the record's text is
\* the trimmed, newline-joined concatenation of the text fields of the text
\* blocks, or the trimmed whole string when the content is a plain string;
\* with no text left the line yields None.
C8_TextIsJoinedTextBlocks ==
    (res /= Pending /\ WellFormedMessage(arg_line)) =>
        IF ExpectedText(arg_line) = <<>> THEN res = None
        ELSE res.kind = "record" /\ res.text = ExpectedText(arg_line)

(***************************************************************************)
(* The backfill's properties.                                              *)
(***************************************************************************)
\* the session files of the agents the command is run for
Sources ==
    UNION {get_session_files(agents[k], include_deleted) : k \in 1..Len(agents)}

\* the lines of a file
FileLines(p) ==
    IF data[p] = <<>> THEN <<>> ELSE SplitLines(StripEnds(data[p]))

\* where the parseable messages are: <<path, line number>>
MessageAt ==
    {pk \in UNION {{<<p, k>> : k \in 1..Len(FileLines(p))} : p \in Sources} :
        ParseTokens(FileLines(pk[1])[pk[2]]) = "record"}

RecordAt(pk) ==
    [path |-> pk[1], msg |-> parse_line(Decode(FileLines(pk[1])[pk[2]]))]

StampOf(m) == Instant(m.msg.timestamp)

\* _show_last_n has printed, or has been left by an exception
BackfillOver == pc = "print" \/ (pc = "exited" /\ exit /= "none")

\* what it printed
Output == IF pc = "print" THEN Shown ELSE <<>>

\* every file has at most 3n lines, which fit in the trailing read window,
\* and the timestamps of the parseable messages are distinct; moreover no
\* directory or file was unreadable and parse_line raises on no line
BackfillInputOk ==
    /\ \A p \in Sources :
          /\ Len(FileLines(p)) <= OverRead * n
          /\ ByteSize(data[p]) <= OverRead * n * BytesPerLine
          /\ \A k \in 1..Len(FileLines(p)) :
                ParseTokens(FileLines(p)[k]) /= "raise"
    /\ \A x, y \in MessageAt :
          x /= y => StampOf(RecordAt(x)) /= StampOf(RecordAt(y))
    /\ bfFailed = {}
    /\ exit /= "OSError"

\* the output is the min(n, total) most recent messages, oldest first
OutputIsMostRecent ==
    /\ Len(Output) = Min2(n, Cardinality(MessageAt))
    /\ \A k \in 1..Len(Output) : \E x \in MessageAt : Output[k] = RecordAt(x)
    /\ \A j, k \in 1..Len(Output) :
          j < k => StampOf(Output[j]) < StampOf(Output[k])
    /\ \A x \in MessageAt :
          RecordAt(x) \notin Range(Output) =>
              \A k \in 1..Len(Output) :
                  StampOf(RecordAt(x)) < StampOf(Output[k])

\* C5: for source files that each have at most 3n lines fitting in the
\* trailing read window and whose parseable messages have distinct
\* timestamps, the backfill prints exactly min(n, total) records, in
\* ascending timestamp order, and they are the most recent messages of all
\* files.
C5_BackfillShowsMostRecent ==
    (BackfillOver /\ BackfillInputOk) => OutputIsMostRecent

\* C14: while a backfill of n runs, for every file the bytes _tail_lines
\* reads are the last bytes of the file, at most 3 * 2048 * n of them,
\* whatever the size of the file: the read starts inside the file, and what
\* it returns is the file's last tokens, the first of them possibly in part.
C14_BackfillReadIsBounded ==
    n >= 1 =>
        \A p \in Paths :
            LET s == data[p]
                start == ReadStart(s, n * OverRead)
                read == ReadFrom(s, start)
                skipped == Len(s) - Len(read)
            IN  /\ 0 <= start /\ start <= ByteSize(s)
                /\ ByteSize(s) - start <= OverRead * BytesPerLine * n
                /\ skipped >= 0
                /\ ByteSize(SubSeq(s, 1, skipped)) <= start
                /\ \A j \in 1..Len(read) :
                      \/ read[j] = s[skipped + j]
                      \/ j = 1 /\ read[j] = "frag"
                            /\ ByteSize(SubSeq(s, 1, skipped)) < start

\* a backfill of 1 has read a file that is longer than 3 * 2048 bytes
C14_Witness ==
    /\ pc = "sort"
    /\ n = 1
    /\ \E p \in bfTried \ bfFailed :
          /\ ByteSize(data[p]) > OverRead * BytesPerLine * n
          /\ Len(ReadFrom(data[p], ReadStart(data[p], n * OverRead)))
                < Len(data[p])

\* the files of an agent's directory that end in .jsonl, marked or not
SessionFilesOf(agent) ==
    {p \in Paths : AgentOf(p) = agent /\ exists[p] /\ EndsWithJsonl(NameOf(p))}

\* C9: without --deleted no file whose name holds the deletion marker is
\* registered by discovery or read by the backfill; with --deleted such a
\* file is enumerated like any other session file, and a backfill that has
\* gone through every agent has read it too.
C9_DeletedFilteredUnlessIncluded ==
    /\ ~include_deleted =>
          \A p \in Registry \cup bfTried : ~HasDeletedMarker(NameOf(p))
    /\ include_deleted =>
          /\ \A k \in 1..Len(agents) :
                get_session_files(agents[k], include_deleted)
                    = SessionFilesOf(agents[k])
          /\ pc \in {"sort", "print"} =>
                \A k \in 1..Len(agents) : SessionFilesOf(agents[k]) \subseteq bfTried

\* with --deleted the file of the deleted session has been read by the
\* backfill and registered by the engine's first discovery pass
C9_Witness ==
    /\ include_deleted
    /\ \E p \in Registry :
          /\ HasDeletedMarker(NameOf(p))
          /\ handle[p] = "open"
          /\ p \in bfTried \ bfFailed
          /\ data[p] /= <<>>

(***************************************************************************)
(* The tail engine's properties.                                           *)
(***************************************************************************)
\* C1: the engine never emits a record for text that was in the file when
\* the source was registered: every emitted record starts after the length
\* the file had at registration.
C1_OnlyAppendedLinesEmitted ==
    \A k \in 1..Len(emitted) : emitted[k].from > regpos[emitted[k].path]

\* a record has been emitted for a source that held a whole line when it was
\* registered
C1_Witness ==
    \E k \in 1..Len(emitted) :
        LET p == emitted[k].path
        IN  /\ regpos[p] >= 2
            /\ data[p][regpos[p]] = "NL"

\* C2: text without a terminator is left unconsumed: it is not handed to the
\* parser, no record is emitted for it, and the cursor stays at the end of
\* the last terminated line.
C2_PartialLineUnconsumed ==
    /\ \A k \in 1..Len(parsed) :
          data[parsed[k].path][parsed[k].to] = "NL"
    /\ \A p \in Registry :
          cursor[p] > regpos[p] => data[p][cursor[p]] = "NL"

\* C3: once a cancellation has stopped tail(), wherever it was delivered, no
\* handle the engine opened is still open.
C3_StoppedReleasesAll ==
    (pc = "Stopped" /\ exit = "KeyboardInterrupt") =>
        \A p \in Paths : handle[p] /= "open"

\* C4: registration is idempotent: the registry holds a path once, a path
\* is opened once, and a discovery step leaves the handle and the cursor of
\* a registered source as they are.
C4_RegistrationIdempotent ==
    [][/\ \A j, k \in 1..Len(files') : files'[j] = files'[k] => j = k
       /\ \A p \in Paths : opens'[p] = IF p \in Range(files') THEN 1 ELSE 0
       /\ pc \in {"scan0", "rescan"} =>
            \A p \in Registry : /\ p \in Range(files')
                                /\ pc' /= "Stopped" => handle'[p] = handle[p]
                                /\ cursor'[p] = cursor[p]]_vars

\* a rediscovery pass has enumerated p1 again after its cursor had moved
C4_Witness ==
    /\ pc = "rescan"
    /\ idx = 2
    /\ "p1" \in Registry
    /\ cursor["p1"] > regpos["p1"]

\* C6: an I/O failure on a source while it is enumerated, opened or read
\* never stops the engine.
C6_IOFailureNeverFatal == exit /= "OSError"

\* C10: on the transition to Stopped a release is attempted on every
\* registered handle, whether or not the release of another one failed:
\* when a cancellation has stopped tail(), fh.close() has been called for
\* every path of the registry.
C10_ReleaseAttemptedOnAll ==
    (pc = "Stopped" /\ exit = "KeyboardInterrupt") => closeTried = Registry

\* C11: the records are emitted in read order: what was printed is never
\* reordered, a step prints at most one record, that of the line the pass is
\* at in the source it is visiting, which lies after every line of that
\* source printed before; and within a pass the sources are visited in
\* registration order.
C11_EmissionInReadOrder ==
    [][/\ Len(emitted') >= Len(emitted)
       /\ \A k \in 1..Len(emitted) : emitted'[k] = emitted[k]
       /\ Len(emitted') > Len(emitted) =>
            /\ Len(emitted') = Len(emitted) + 1
            /\ pc = "read"
            /\ idx <= Len(files)
            /\ emitted'[Len(emitted')].path = files[idx]
            /\ emitted'[Len(emitted')].from = cursor[files[idx]] + 1
            /\ \A k \in 1..Len(emitted) :
                  emitted[k].path = files[idx] =>
                      emitted[k].to < emitted'[Len(emitted')].from
       /\ (pc = "read" /\ pc' = "read") => idx' >= idx]_vars

\* a record of the source registered second was printed before a record of
\* the source registered first
C11_Witness ==
    /\ Len(files) >= 2
    /\ \E j, k \in 1..Len(emitted) :
          j < k /\ emitted[j].path = files[2] /\ emitted[k].path = files[1]

\* C12: in a discovery step a candidate whose open() fails is not
\* registered, the registry keeps its entries and every registered source
\* its handle and cursor, and every candidate that is not registered is
\* tried, whatever happened to it in the passes before.
C12_FailedOpenIsRetried ==
    [][(pc \in {"scan0", "rescan"} /\ pc' /= "Stopped"
            /\ <<pc', idx'>> /= <<pc, idx>>) =>
          /\ lastFailed' \cap Range(files') = {}
          /\ Len(files') >= Len(files)
          /\ \A k \in 1..Len(files) : files'[k] = files[k]
          /\ \A p \in Registry :
                cursor'[p] = cursor[p] /\ handle'[p] = handle[p]
          /\ get_session_files(agents[idx], include_deleted) \ Registry
                \subseteq Range(files') \cup lastFailed']_vars

\* p1 has been in its directory from the start; it is registered by no pass
\* so far, and the rediscovery pass has just tried to open it once more
C12_Witness ==
    /\ pc = "rescan"
    /\ idx = 2
    /\ "p1" \in lastFailed
    /\ "p1" \notin Registry
    /\ Len(parsed) > 0

\* C13: the engine goes to sleep only at the end of a pass over all the
\* sources, and exactly when that pass printed no record; after a pass that
\* printed one the next pass starts without a sleep.  found_any is true
\* exactly when the pass has printed a record, and the pass leaves a source
\* only when readline has found nothing more to read in it.
C13_SleepsOnlyAfterIdlePass ==
    [][/\ (pc' = "sleep" /\ pc /= "sleep") =>
            pc = "read" /\ idx > Len(files) /\ ~found_any
       /\ (pc = "read" /\ idx > Len(files) /\ pc' \notin {"read", "Stopped"}) =>
            pc' = IF found_any THEN "loop" ELSE "sleep"
       /\ (pc /= "read" /\ pc' = "read") => ~found_any'
       /\ (pc = "read" /\ pc' = "read") =>
            /\ found_any' = (found_any \/ Len(emitted') > Len(emitted))
            /\ idx' /= idx =>
                  /\ idx' = idx + 1
                  /\ cursor[files[idx]] >= Len(data[files[idx]])]_vars

\* the engine sleeps after an idle pass that followed a pass with a record
C13_Witness ==
    /\ pc = "sleep"
    /\ Len(emitted) > 0
    /\ Len(files) >= 2

\* C15: while the engine runs, a parseable, terminated line appended to a
\* registered source is eventually read and printed: the line "M2" waiting
\* in a registered file leads to its being consumed, unless the engine has
\* been stopped.
C15_AppendedLineEventuallyEmitted ==
    \A p \in LivePaths :
        (p \in Registry /\ "M2" \in Range(data[p]))
            ~> ("M2" \notin Range(data[p]) \/ pc = "Stopped")

\* C16: no text of a file is handed to the parser twice: the lines parsed
\* from one source lie one after the other in the file, without overlap,
\* and so do the records printed for it.
C16_NoLineParsedTwice ==
    \A j, k \in 1..Len(parsed) :
        (j < k /\ parsed[j].path = parsed[k].path) =>
            /\ parsed[j].from <= parsed[j].to
            /\ parsed[j].to < parsed[k].from

\* two records of one source have been printed, and a rediscovery pass has
\* enumerated that source again since
C16_Witness ==
    /\ pc = "rescan"
    /\ idx = 2
    /\ Len(emitted) = 2
    /\ emitted[1].path = emitted[2].path
    /\ emitted[1].path = "p1"

\* C17: the read offset of a registered source never moves backwards,
\* whatever the step: a read, a discovery pass, an append or a truncation.
C17_CursorNeverMovesBack ==
    [][\A p \in Registry : p \in Range(files') /\ cursor'[p] >= cursor[p]]_vars

\* a registered file was cut below the offset of its handle after a record
\* of it was printed, and the engine has made a pass over it since
C17_Witness ==
    /\ pc = "sleep"
    /\ \E p \in Registry :
          /\ cursor[p] > Len(data[p])
          /\ \E k \in 1..Len(emitted) : emitted[k].path = p

\* C18: while the engine runs it holds exactly one open handle for each
\* source of the registry and none for any other path, it has closed no
\* handle, and the registry only grows.
C18_OpenHandlesAreTheRegistry ==
    [][/\ Running' =>
            /\ {p \in Paths : handle'[p] = "open"} = Range(files')
            /\ Cardinality({p \in Paths : handle'[p] = "open"}) = Len(files')
            /\ \A p \in Paths : handle'[p] /= "closed"
       /\ Len(files') >= Len(files)
       /\ \A k \in 1..Len(files) : files'[k] = files[k]]_vars

\* the engine runs with three sources registered in two discovery passes,
\* after it has read lines
C18_Witness ==
    /\ Running
    /\ pc = "sleep"
    /\ Len(files) = 3
    /\ regpos["p3"] > 0
    /\ Len(parsed) > 0

====
